---- MODULE Spec2Model ----
(***************************************************************************)
(* Model of docs/_build/jupyter_execute/transcoding-large-experiments.py:  *)
(* discovery of the videos (cell 59), the metadata table and its duration  *)
(* sums (cells 60-66), the generation of transcode.sh (cell 74), the run   *)
(* of that script by bash, and the verification cell (cell 76).            *)
(*                                                                         *)
(* A string is a sequence of symbols.  A symbol is one character, or one   *)
(* literal word of the command template, which holds no character the      *)
(* shell treats specially.  A path is the sequence of its parts, as        *)
(* pathlib's Path.parts gives them; the root is the part "/".              *)
(***************************************************************************)
EXTENDS Integers, Sequences, FiniteSets, TLC

VARIABLES pc, fs, drive_i, all_videos,
          cap, metadata_df, outlier_rows, total_raw, total_seconds,
          jobs, lines,
          sh, status, dirs, outfiles,
          verified, records, wrote_at_verify

vars == << pc, fs, drive_i, all_videos,
           cap, metadata_df, outlier_rows, total_raw, total_seconds,
           jobs, lines,
           sh, status, dirs, outfiles,
           verified, records, wrote_at_verify >>

discoveryVars == << fs, drive_i, all_videos >>
inventoryVars == << cap, metadata_df, outlier_rows, total_raw, total_seconds >>
planVars == << jobs, lines >>
bashVars == << sh, status, dirs, outfiles >>
verifyVars == << verified, records, wrote_at_verify >>

(***************************************************************************)
(* Bounds                                                                  *)
(***************************************************************************)
MaxFiles == 4

MaxVideos == 2

MaxRows == 2

(***************************************************************************)
(* Strings                                                                 *)
(***************************************************************************)
S_slash == << "/" >>
S_dot == << "." >>
S_media == << "m", "e", "d", "i", "a" >>
S_andre == << "a", "n", "d", "r", "e" >>
S_maternal == << "m", "a", "t", "e", "r", "n", "a", "l" >>
S_mp4 == << "m", "p", "4" >>
S_MPG == << "M", "P", "G" >>
S_RECYCLE == << "$", "R", "E", "C", "Y", "C", "L", "E" >>
S_video == << "v", "i", "d", "e", "o" >>
S_clip == << "c", "l", "i", "p" >>

startswith(s, prefix) ==
    /\ Len(s) >= Len(prefix)
    /\ SubSeq(s, 1, Len(prefix)) = prefix

endswith(s, suffix) ==
    /\ Len(s) >= Len(suffix)
    /\ SubSeq(s, Len(s) - Len(suffix) + 1, Len(s)) = suffix

Range(s) == { s[i] : i \in 1..Len(s) }

\* every ordering of a finite set: the order in which a directory scan
\* returns its entries is not fixed by the program
Orderings(S) ==
    { s \in [1..Cardinality(S) -> S] : \A i, j \in 1..Cardinality(S) : s[i] = s[j] => i = j }

RECURSIVE SelectSeqBy(_, _)
SelectSeqBy(s, keep) ==
    IF s = << >> THEN << >>
    ELSE IF Head(s) \in keep THEN << Head(s) >> \o SelectSeqBy(Tail(s), keep)
         ELSE SelectSeqBy(Tail(s), keep)

(***************************************************************************)
(* Configuration (cell 53)                                                 *)
(***************************************************************************)
MOUNT_POINT == << S_slash, S_media, S_andre >>

DRIVES ==
    << << "1", "1", "D", "9", "-", "5", "C", "5", "7" >>,
       << "5", "1", "6", "1", "-", "4", "A", "9", "3" >>,
       << "9", "B", "5", "7", "-", "8", "6", "4", "0" >> >>

OUTPUT_DRIVE == Append(MOUNT_POINT, S_maternal)

(***************************************************************************)
(* pathlib                                                                 *)
(***************************************************************************)
\* p is base or lies below it
IsUnder(p, base) == startswith(p, base)

\* Path.relative_to: the parts below base
relative_to(p, base) == SubSeq(p, Len(base) + 1, Len(p))

\* the / operator with a relative right operand
JoinPath(base, rel) == base \o rel

\* Path.parent
parent(p) == SubSeq(p, 1, Len(p) - 1)

\* every file and directory the file set holds, as a directory walk finds them
Entries(files) == UNION { { SubSeq(p, 1, k) : k \in 1..Len(p) } : p \in files }

\* root.glob('**/*' + suffix): the entries at any depth below root whose
\* name ends with the suffix; the match is case-sensitive
glob(root, suffix, files) ==
    { e \in Entries(files) :
        /\ IsUnder(e, root)
        /\ Len(e) > Len(root)
        /\ endswith(e[Len(e)], suffix) }

(***************************************************************************)
(* Cell 58: the two path filters                                           *)
(***************************************************************************)
is_visible_lastonly(filepath) == ~ startswith(filepath[Len(filepath)], S_dot)

is_visible(filepath) ==
    \A i \in 1..Len(filepath) : ~ startswith(filepath[i], S_dot)

is_not_recycled(filepath) ==
    \A i \in 1..Len(filepath) : ~ startswith(filepath[i], S_RECYCLE)

(***************************************************************************)
(* Cell 59: all_videos                                                     *)
(***************************************************************************)
DrivePath(d) == Append(MOUNT_POINT, DRIVES[d])

DiscoverDrive ==
    /\ pc = "cell59"
    /\ drive_i <= Len(DRIVES)
    /\ \E mp4s \in Orderings(glob(DrivePath(drive_i), S_dot \o S_mp4, fs)),
          mpgs \in Orderings(glob(DrivePath(drive_i), S_dot \o S_MPG, fs)) :
          LET videos == mp4s \o mpgs
              visible == SelectSeqBy(videos, { v \in Range(videos) : is_visible(v) })
              kept == SelectSeqBy(visible, { v \in Range(visible) : is_not_recycled(v) })
          IN  all_videos' = all_videos \o kept
    /\ drive_i' = drive_i + 1
    /\ pc' = IF drive_i = Len(DRIVES) THEN "cell60" ELSE "cell59"
    /\ UNCHANGED << fs, inventoryVars, planVars, bashVars, verifyVars >>


(***************************************************************************)
(* Floating point values of the duration column: a finite value, +inf,     *)
(* -inf or NaN.  The frame counts and rates the probe may return are       *)
(* chosen so that every finite quotient is a whole number.                 *)
(***************************************************************************)
Fin(n) == [kind |-> "fin", v |-> n]
Inf == [kind |-> "inf", v |-> 0]
NegInf == [kind |-> "ninf", v |-> 0]
NaN == [kind |-> "nan", v |-> 0]
Unset == [kind |-> "unset", v |-> 0]

\* a cell of the frames column: an integer, or None once cell 64 has set it
Known(n) == [known |-> TRUE, v |-> n]
None == [known |-> FALSE, v |-> 0]

FrameValues == { -4, 0, 2, 4 }
FpsValues == { -1, 0, 1, 2 }

Abs(n) == IF n < 0 THEN -n ELSE n

\* frames / fps as pandas divides a column by a float column
Divide(frames, fps) ==
    IF ~ frames.known THEN NaN
    ELSE IF fps = 0
         THEN IF frames.v > 0 THEN Inf
              ELSE IF frames.v < 0 THEN NegInf
              ELSE NaN
         ELSE IF (frames.v < 0) = (fps < 0)
              THEN Fin(Abs(frames.v) \div Abs(fps))
              ELSE Fin(-(Abs(frames.v) \div Abs(fps)))

RECURSIVE FiniteSum(_)
FiniteSum(q) ==
    IF q = << >> THEN 0
    ELSE (IF Head(q).kind = "fin" THEN Head(q).v ELSE 0) + FiniteSum(Tail(q))

\* Series.sum(): NaN entries are skipped, infinities are not
SeriesSum(q) ==
    LET pos == \E i \in 1..Len(q) : q[i].kind = "inf"
        neg == \E i \in 1..Len(q) : q[i].kind = "ninf"
    IN  IF pos /\ neg THEN NaN
        ELSE IF pos THEN Inf
        ELSE IF neg THEN NegInf
        ELSE Fin(FiniteSum(q))

\* (metadata_df.frames / metadata_df.fps).sum()
TotalDuration(df) ==
    SeriesSum([i \in 1..Len(df) |-> Divide(df[i].frames, df[i].fps)])

(***************************************************************************)
(* Cell 60: the metadata table, one probe per video                        *)
(***************************************************************************)
Probe ==
    /\ pc = "cell60"
    /\ Len(metadata_df) < Len(all_videos)
    /\ \E frames \in FrameValues, fps \in FpsValues :
          LET video == all_videos[Len(metadata_df) + 1]
          IN  /\ cap' = Append(cap, [frames |-> frames, fps |-> fps])
              /\ metadata_df' = Append(metadata_df,
                     [file |-> video, frames |-> Known(frames), fps |-> fps])
    /\ pc' = IF Len(metadata_df) + 1 = Len(all_videos) THEN "cell61" ELSE "cell60"
    /\ UNCHANGED << discoveryVars, outlier_rows, total_raw, total_seconds,
                    planVars, bashVars, verifyVars >>

(***************************************************************************)
(* Cell 61: the first total, over the raw table                            *)
(***************************************************************************)
Cell61 ==
    /\ pc = "cell61"
    /\ total_raw' = TotalDuration(metadata_df)
    /\ pc' = "cell64"
    /\ UNCHANGED << discoveryVars, cap, metadata_df, outlier_rows, total_seconds,
                    planVars, bashVars, verifyVars >>

(***************************************************************************)
(* Cell 64: the rows with a negative frame count lose it                   *)
(***************************************************************************)
\* metadata_df.frames < 0
OutlierMask(df) ==
    [i \in 1..Len(df) |-> df[i].frames.known /\ df[i].frames.v < 0]

Cell64 ==
    /\ pc = "cell64"
    /\ outlier_rows' = OutlierMask(metadata_df)
    /\ metadata_df' =
          [i \in 1..Len(metadata_df) |->
              IF OutlierMask(metadata_df)[i]
              THEN [metadata_df[i] EXCEPT !.frames = None]
              ELSE metadata_df[i]]
    /\ pc' = "cell65"
    /\ UNCHANGED << discoveryVars, cap, total_raw, total_seconds,
                    planVars, bashVars, verifyVars >>

(***************************************************************************)
(* Cells 65 and 66: the total again, kept as total_seconds                 *)
(***************************************************************************)
Cell65 ==
    /\ pc = "cell65"
    /\ total_seconds' = TotalDuration(metadata_df)
    /\ pc' = "cell74"
    /\ UNCHANGED << discoveryVars, cap, metadata_df, outlier_rows, total_raw,
                    planVars, bashVars, verifyVars >>

(***************************************************************************)
(* Cell 74: transcode.sh, one line per video                               *)
(***************************************************************************)
RECURSIVE JoinParts(_)
JoinParts(parts) ==
    IF parts = << >> THEN << >>
    ELSE IF Len(parts) = 1 THEN parts[1]
    ELSE parts[1] \o S_slash \o JoinParts(Tail(parts))

\* str(path)
Str(p) ==
    IF p # << >> /\ p[1] = S_slash
    THEN S_slash \o JoinParts(Tail(p))
    ELSE JoinParts(p)

output_filepath_nodrive(video) ==
    JoinPath(OUTPUT_DRIVE, relative_to(video, Append(MOUNT_POINT, video[Len(MOUNT_POINT) + 1])))

\* OUTPUT_DRIVE / video.relative_to(MOUNT_POINT)
output_filepath(video) == JoinPath(OUTPUT_DRIVE, relative_to(video, MOUNT_POINT))

\* the command template with its three fields filled in
FormatCmd(dir, input, output) ==
    << "mkdir", " ", "-p", " " >> \o dir \o << " ", "&&" >>
    \o << "ffmpeg", " ", "-y", " ", "-hwaccel", " ", "cuda", " ",
          "-hwaccel_output_format", " ", "cuda", " ", "-extra_hw_frames", " ", "4", " ",
          "-i", " ", "'" >> \o input \o << "'", " " >>
    \o << "-c:v", " ", "h264_nvenc", " ", "-crf", " ", "24", " ", "'" >>
    \o output \o << "'", "\n" >>

PlannedVideos_sane(videos, mask) ==
    SelectSeqBy(videos, { videos[i] : i \in { k \in 1..Len(videos) : ~ mask[k] } })

\* the videos the script is written for: all of all_videos
PlannedVideos(videos, mask) == videos

WriteScript ==
    /\ pc = "cell74"
    /\ LET planned == PlannedVideos(all_videos, outlier_rows)
       IN  /\ jobs' = [i \in 1..Len(planned) |->
                          [input |-> planned[i], output |-> output_filepath(planned[i])]]
           /\ lines' = [i \in 1..Len(planned) |->
                          FormatCmd(Str(parent(output_filepath(planned[i]))),
                                    Str(planned[i]),
                                    Str(output_filepath(planned[i])))]
           /\ status' = [i \in 1..Len(planned) |-> "Pending"]
    /\ sh' = [pc |-> "read", pos |-> 1, line |-> 0, cmds |-> << >>, k |-> 0,
              out |-> << >>, src |-> << >>, error |-> FALSE]
    /\ pc' = "planned"
    /\ UNCHANGED << discoveryVars, inventoryVars, dirs, outfiles, verifyVars >>

(***************************************************************************)
(* bash running transcode.sh                                               *)
(***************************************************************************)
RECURSIVE Concat(_)
Concat(ls) == IF ls = << >> THEN << >> ELSE Head(ls) \o Concat(Tail(ls))

\* the text of transcode.sh: fp.writelines(lines)
Script == Concat(lines)

\* the line of the script that holds position pos
LineOf(text, pos) == 1 + Cardinality({ j \in 1..(pos - 1) : text[j] = "\n" })

\* the maximal runs of consecutive positions in W, in order, as [s, e]
Runs(W) ==
    LET starts == { i \in W : (i - 1) \notin W }
        kth(k) == CHOOSE x \in starts : Cardinality({ y \in starts : y < x }) = k - 1
        lasts == { i \in W : (i + 1) \notin W }
        endOf(x) == CHOOSE e \in lasts : e >= x /\ \A y \in lasts : y >= x => e <= y
    IN  [k \in 1..Cardinality(starts) |-> [s |-> kth(k), e |-> endOf(kth(k))]]

\* the symbols of t at the positions P, in order
Pick(t, P) ==
    LET kth(k) == CHOOSE x \in P : Cardinality({ y \in P : y < x }) = k - 1
    IN  [k \in 1..Cardinality(P) |-> t[kth(k)]]

\* The shell's reading of one command from position pos: words are split at
\* unquoted blanks, && ends a simple command, an unquoted newline ends the
\* list; between single quotes every symbol, a newline too, is literal, and
\* the quotes are removed.  ok is FALSE when the text ends inside a quoted
\* string.  cmds is the && list: a sequence of simple commands, each a
\* sequence of words.
Lex(t, pos) ==
    LET quotes == { j \in pos..Len(t) : t[j] = "'" }
        quoted(i) == Cardinality({ j \in quotes : j < i }) % 2 = 1
        ends == { i \in pos..Len(t) : t[i] = "\n" /\ ~ quoted(i) }
        stop == IF ends = {} THEN Len(t) + 1
                ELSE CHOOSE i \in ends : \A j \in ends : i <= j
        ands == { i \in pos..(stop - 1) : t[i] = "&&" /\ ~ quoted(i) }
        inword == { i \in pos..(stop - 1) : quoted(i) \/ t[i] \notin { " ", "&&" } }
        runs == Runs(inword)
        word(r) == Pick(t, { i \in (r.s)..(r.e) : t[i] # "'" })
        cmdOf(r) == 1 + Cardinality({ x \in ands : x < r.s })
        wordsOf(c) == LET mine == SelectSeq(runs, LAMBDA r : cmdOf(r) = c)
                      IN  [k \in 1..Len(mine) |-> word(mine[k])]
        all == [c \in 1..(Cardinality(ands) + 1) |-> wordsOf(c)]
    IN  IF ends = {} /\ Cardinality(quotes) % 2 = 1
        THEN [ok |-> FALSE, cmds |-> << >>, next |-> Len(t) + 1]
        ELSE [ok |-> TRUE,
              cmds |-> SelectSeq(all, LAMBDA ws : ws # << >>),
              next |-> stop + 1]

\* the parts of a word between its slashes
SplitSlash(w) ==
    LET runs == Runs({ i \in 1..Len(w) : w[i] # "/" })
    IN  [k \in 1..Len(runs) |-> SubSeq(w, runs[k].s, runs[k].e)]

\* the path a command-line word names; a word that does not start with /
\* is relative to the directory the script is run from
ParsePath(w) ==
    IF w # << >> /\ w[1] = "/"
    THEN << S_slash >> \o SplitSlash(w)
    ELSE SplitSlash(w)

Ancestors(p) == { SubSeq(p, 1, k) : k \in 1..Len(p) }

\* the directories that exist before the script runs
ExistingDirs == (Entries(fs) \ fs) \cup Ancestors(OUTPUT_DRIVE)

TemplateOptions ==
    { "-y", "-hwaccel", "-hwaccel_output_format", "-extra_hw_frames", "-i", "-c:v", "-crf" }

\* mkdir -p: any option but -p is refused and nothing is made; otherwise
\* every operand is made with its missing parents
MkdirOperands(words) ==
    { ParsePath(words[i]) : i \in { k \in 2..Len(words) : words[k] # << "-p" >> } }

MkdirRefuses(words) ==
    \E i \in 2..Len(words) :
        /\ words[i] # << "-p" >>
        /\ words[i][1] \in TemplateOptions \cup { "-" }

ValueOptions ==
    { << "-hwaccel" >>, << "-hwaccel_output_format" >>, << "-extra_hw_frames" >>,
      << "-i" >>, << "-c:v" >>, << "-crf" >> }

\* ffmpeg's reading of its arguments: the values of -i are inputs, every
\* word that is neither an option nor an option's value is an output
RECURSIVE FfmpegArgs(_, _, _)
FfmpegArgs(ws, ins, outs) ==
    IF ws = << >> THEN [ok |-> TRUE, ins |-> ins, outs |-> outs]
    ELSE IF Head(ws) = << "-y" >> THEN FfmpegArgs(Tail(ws), ins, outs)
    ELSE IF Head(ws) \in ValueOptions
    THEN IF Len(ws) < 2 THEN [ok |-> FALSE, ins |-> ins, outs |-> outs]
         ELSE FfmpegArgs(SubSeq(ws, 3, Len(ws)),
                         IF Head(ws) = << "-i" >> THEN Append(ins, ParsePath(ws[2])) ELSE ins,
                         outs)
    ELSE FfmpegArgs(Tail(ws), ins, Append(outs, ParsePath(Head(ws))))

BashRead ==
    /\ pc = "planned"
    /\ sh.pc = "read"
    /\ IF sh.pos > Len(Script)
       THEN sh' = [sh EXCEPT !.pc = "exit"]
       ELSE LET r == Lex(Script, sh.pos)
            IN  IF ~ r.ok
                THEN sh' = [sh EXCEPT !.pc = "exit", !.error = TRUE]
                ELSE IF r.cmds = << >>
                THEN sh' = [sh EXCEPT !.pos = r.next]
                ELSE sh' = [sh EXCEPT !.pc = "exec", !.cmds = r.cmds, !.k = 1,
                                      !.pos = r.next, !.line = LineOf(Script, sh.pos)]
    /\ UNCHANGED << pc, discoveryVars, inventoryVars, planVars, status, dirs, outfiles,
                    verifyVars >>

\* after a simple command of the && list: the next one on success, the
\* next line of the script on failure or at the end of the list
AfterCommand(ok) ==
    IF ok /\ sh.k < Len(sh.cmds)
    THEN [sh EXCEPT !.pc = "exec", !.k = sh.k + 1, !.out = << >>, !.src = << >>]
    ELSE [sh EXCEPT !.pc = "read", !.out = << >>, !.src = << >>]

BashExec ==
    /\ pc = "planned"
    /\ sh.pc = "exec"
    /\ LET words == sh.cmds[sh.k]
       IN  IF words[1] = << "mkdir" >>
           THEN \E works \in BOOLEAN :
                   LET ok == works /\ ~ MkdirRefuses(words)
                       made == UNION { Ancestors(d) : d \in MkdirOperands(words) }
                   IN  /\ dirs' = IF ok THEN dirs \cup (made \ ExistingDirs) ELSE dirs
                       /\ sh' = AfterCommand(ok)
                       /\ status' = IF ok THEN status
                                    ELSE [status EXCEPT ![sh.line] = "Failed"]
           ELSE IF words[1] = << "ffmpeg" >>
           THEN \E starts \in BOOLEAN :
                   LET a == FfmpegArgs(Tail(words), << >>, << >>)
                       can == /\ a.ok
                              /\ a.ins # << >>
                              /\ a.outs # << >>
                              /\ Range(a.ins) \subseteq fs
                              /\ \A o \in Range(a.outs) :
                                    parent(o) \in ExistingDirs \cup dirs
                   IN  /\ dirs' = dirs
                       /\ IF starts /\ can
                          THEN /\ sh' = [sh EXCEPT !.pc = "ffmpeg", !.out = a.outs,
                                                   !.src = a.ins[1]]
                               /\ status' = [status EXCEPT ![sh.line] = "Running"]
                          ELSE /\ sh' = AfterCommand(FALSE)
                               /\ status' = [status EXCEPT ![sh.line] = "Failed"]
           ELSE /\ dirs' = dirs
                /\ sh' = AfterCommand(FALSE)
                /\ status' = [status EXCEPT ![sh.line] = "Failed"]
    /\ UNCHANGED << pc, discoveryVars, inventoryVars, planVars, outfiles, verifyVars >>

\* the running ffmpeg opens its output: the file exists from now on (-y
\* replaces a file that is already there)
FfmpegWrite ==
    /\ pc = "planned"
    /\ sh.pc = "ffmpeg"
    /\ \E o \in Range(sh.out) : \A f \in outfiles : f.path = o => f.complete
    /\ outfiles' = { f \in outfiles : f.path \notin Range(sh.out) }
                   \cup { [path |-> o, src |-> sh.src, complete |-> FALSE] : o \in Range(sh.out) }
    /\ UNCHANGED << pc, discoveryVars, inventoryVars, planVars, sh, status, dirs, verifyVars >>

\* ffmpeg ends: with exit status 0 and the output complete, or with an error
FfmpegExit ==
    /\ pc = "planned"
    /\ sh.pc = "ffmpeg"
    /\ \E ok \in BOOLEAN :
          /\ ok => \A o \in Range(sh.out) :
                      \E f \in outfiles : f.path = o /\ f.src = sh.src /\ ~ f.complete
          /\ outfiles' = IF ok
                         THEN { IF f.path \in Range(sh.out)
                                THEN [f EXCEPT !.complete = TRUE] ELSE f : f \in outfiles }
                         ELSE outfiles
          /\ status' = [status EXCEPT ![sh.line] = IF ok THEN "Succeeded" ELSE "Failed"]
          /\ sh' = AfterCommand(ok)
    /\ UNCHANGED << pc, discoveryVars, inventoryVars, planVars, dirs, verifyVars >>

(***************************************************************************)
(* Cell 76: the verification table, built while the script may still run   *)
(***************************************************************************)
original_video_samebase(transcoded_video) ==
    JoinPath(MOUNT_POINT, relative_to(transcoded_video, MOUNT_POINT))

\* MOUNT_POINT / transcoded_video.relative_to(OUTPUT_DRIVE)
original_video(transcoded_video) ==
    JoinPath(MOUNT_POINT, relative_to(transcoded_video, OUTPUT_DRIVE))

transcoded_globs_mp4only(disk) ==
    { glob(OUTPUT_DRIVE, S_dot \o S_mp4, disk) }

\* the two searches of the output drive
transcoded_globs(disk) ==
    { glob(OUTPUT_DRIVE, S_dot \o S_mp4, disk), glob(OUTPUT_DRIVE, S_dot \o S_MPG, disk) }

Verify ==
    /\ pc = "planned"
    /\ ~ verified
    /\ LET disk == { f.path : f \in outfiles } \cup dirs
       IN  \E transcoded_videos \in Orderings(UNION transcoded_globs(disk)) :
              /\ \A i, j \in 1..Len(transcoded_videos) :
                    (/\ i < j
                     /\ endswith(transcoded_videos[j][Len(transcoded_videos[j])], S_dot \o S_mp4))
                    => endswith(transcoded_videos[i][Len(transcoded_videos[i])], S_dot \o S_mp4)
              /\ records' =
                    IF \A t \in Range(transcoded_videos) : original_video(t) \in fs
                    THEN [i \in 1..Len(transcoded_videos) |->
                             [file |-> original_video(transcoded_videos[i]),
                              transcoded_file |-> transcoded_videos[i]]]
                    ELSE << >>
    /\ verified' = TRUE
    /\ wrote_at_verify' = [status |-> status, files |-> { f.path : f \in outfiles }]
    /\ UNCHANGED << pc, discoveryVars, inventoryVars, planVars, bashVars >>

(***************************************************************************)
(* Discovery on its own: the file trees the drives may hold                *)
(***************************************************************************)
S_a == << "a" >>
S_b == << "b" >>
S_c == << "c" >>
S_hidden == << ".", "h", "i", "d", "d", "e", "n" >>
S_note_txt == << "n", "o", "t", "e", ".", "t", "x", "t" >>
S_video_mp4 == S_video \o S_dot \o S_mp4
S_video_MPG == S_video \o S_dot \o S_MPG
S_video_MP4 == S_video \o << ".", "M", "P", "4" >>
S_video_mpg == S_video \o << ".", "m", "p", "g" >>
S_dotvideo_mp4 == S_dot \o S_video_mp4
S_RECYCLE_BIN == S_RECYCLE \o << ".", "B", "I", "N" >>
S_xRECYCLE == << "x" >> \o S_RECYCLE
S_clip_MPG == S_clip \o S_dot \o S_MPG
S_clip_mp4 == S_clip \o S_dot \o S_mp4
S_clip_mp4_txt == S_clip_mp4 \o << ".", "t", "x", "t" >>
S_d_mp4 == << "d" >> \o S_dot \o S_mp4

\* the four files of the discovery scenario, under the first drive
ScenarioFiles ==
    { DrivePath(1) \o << S_a, S_video_mp4 >>,
      DrivePath(1) \o << S_a, S_hidden, S_video_mp4 >>,
      DrivePath(1) \o << S_b, S_RECYCLE, S_video_MPG >>,
      DrivePath(1) \o << S_c, S_note_txt >> }

FilterCandidates ==
    ScenarioFiles \cup
    { DrivePath(1) \o << S_a, S_video_MP4 >>,
      DrivePath(2) \o << S_video_mpg >>,
      DrivePath(2) \o << S_dotvideo_mp4 >>,
      DrivePath(2) \o << S_RECYCLE_BIN, S_clip_MPG >>,
      DrivePath(2) \o << S_d_mp4, S_note_txt >>,
      DrivePath(3) \o << S_a, S_mp4 >>,
      DrivePath(3) \o << S_a, S_clip_mp4_txt >>,
      DrivePath(3) \o << S_xRECYCLE, S_clip_mp4 >>,
      DrivePath(3) \o << S_clip_MPG >> }

NoInventory ==
    /\ cap = << >>
    /\ metadata_df = << >>
    /\ outlier_rows = << >>
    /\ total_raw = Unset
    /\ total_seconds = Unset

NoPlan ==
    /\ jobs = << >>
    /\ lines = << >>

NoRun ==
    /\ sh = [pc |-> "idle", pos |-> 0, line |-> 0, cmds |-> << >>, k |-> 0,
             out |-> << >>, src |-> << >>, error |-> FALSE]
    /\ status = << >>
    /\ dirs = {}
    /\ outfiles = {}
    /\ verified = FALSE
    /\ records = << >>
    /\ wrote_at_verify = [status |-> << >>, files |-> {}]

InitFilter ==
    /\ pc = "cell59"
    /\ fs \in { F \in SUBSET FilterCandidates : Cardinality(F) \in 1..MaxFiles }
    /\ drive_i = 1
    /\ all_videos = << >>
    /\ NoInventory
    /\ NoPlan
    /\ NoRun

NextFilter == DiscoverDrive

SpecFilter == InitFilter /\ [][NextFilter]_vars

(***************************************************************************)
(* The metadata cells on their own, from a discovered list of videos       *)
(***************************************************************************)
PlainVideos ==
    << DrivePath(1) \o << S_a, S_video_mp4 >>,
       DrivePath(2) \o << S_a, S_video_mp4 >>,
       DrivePath(3) \o << S_clip_MPG >> >>

\* the lists discovery can return when the drives hold some of PlainVideos
InventoryVideoLists ==
    { SelectSeqBy(PlainVideos, F) :
        F \in { G \in SUBSET Range(PlainVideos) : Cardinality(G) \in 1..MaxRows } }

InitInventory ==
    /\ pc = "cell60"
    /\ all_videos \in InventoryVideoLists
    /\ fs = Range(all_videos)
    /\ drive_i = Len(DRIVES) + 1
    /\ NoInventory
    /\ NoPlan
    /\ NoRun

NextInventory ==
    \/ Probe
    \/ Cell61
    \/ Cell64
    \/ Cell65
    \/ WriteScript

SpecInventory == InitInventory /\ [][NextInventory]_vars

(***************************************************************************)
(* The script and the verification, from a discovered list of videos       *)
(***************************************************************************)
S_b_c == << "b", " ", "c" >>
S_d_e == << "d", "'", "e" >>

RunVideos ==
    << DrivePath(1) \o << S_a, S_video_mp4 >>,
       DrivePath(1) \o << S_b_c, S_video_mp4 >>,
       DrivePath(1) \o << S_d_e, S_video_mp4 >>,
       DrivePath(1) \o << S_a, S_clip_MPG >>,
       DrivePath(2) \o << S_a, S_video_mp4 >>,
       DrivePath(2) \o << S_d_e, S_video_mp4 >> >>

RunVideoLists ==
    { SelectSeqBy(RunVideos, F) :
        F \in { G \in SUBSET Range(RunVideos) : Cardinality(G) \in 1..MaxVideos } }

InitRun ==
    /\ pc = "cell74"
    /\ all_videos \in RunVideoLists
    /\ fs = Range(all_videos)
    /\ drive_i = Len(DRIVES) + 1
    /\ cap = [i \in 1..Len(all_videos) |-> [frames |-> 2, fps |-> 1]]
    /\ metadata_df = [i \in 1..Len(all_videos) |->
                         [file |-> all_videos[i], frames |-> Known(2), fps |-> 1]]
    /\ outlier_rows = [i \in 1..Len(all_videos) |-> FALSE]
    /\ total_raw = Fin(2 * Len(all_videos))
    /\ total_seconds = Fin(2 * Len(all_videos))
    /\ NoPlan
    /\ NoRun

NextRun ==
    \/ WriteScript
    \/ BashRead
    \/ BashExec
    \/ FfmpegWrite
    \/ FfmpegExit
    \/ Verify

SpecRun == InitRun /\ [][NextRun]_vars

(***************************************************************************)
(* Properties of discovery (SpecFilter)                                    *)
(***************************************************************************)
UpperCase ==
    << "A", "B", "C", "D", "E", "F", "G", "H", "I", "J", "K", "L", "M",
       "N", "O", "P", "Q", "R", "S", "T", "U", "V", "W", "X", "Y", "Z" >>

LowerCase ==
    << "a", "b", "c", "d", "e", "f", "g", "h", "i", "j", "k", "l", "m",
       "n", "o", "p", "q", "r", "s", "t", "u", "v", "w", "x", "y", "z" >>

lower(s) ==
    [i \in 1..Len(s) |->
        IF \E k \in 1..Len(UpperCase) : UpperCase[k] = s[i]
        THEN LowerCase[CHOOSE k \in 1..Len(UpperCase) : UpperCase[k] = s[i]]
        ELSE s[i]]

\* the characters after the last dot of a name; empty when it has no dot
Extension(name) ==
    LET dots == { i \in 1..Len(name) : name[i] = "." }
    IN  IF dots = {} THEN << >>
        ELSE SubSeq(name, (CHOOSE i \in dots : \A j \in dots : j <= i) + 1, Len(name))

AllowList == { S_mp4, S_MPG }

NoSegmentStartsWith(p, c) ==
    \A i \in 1..Len(p) : ~ (Len(p[i]) >= Len(c) /\ \A k \in 1..Len(c) : p[i][k] = c[k])

\* every file or directory strictly below one of the drives
Discoverable ==
    { e \in Entries(fs) :
        \E d \in 1..Len(DRIVES) : IsUnder(e, DrivePath(d)) /\ Len(e) > Len(DrivePath(d)) }

EligibleCaseSensitive(p) ==
    /\ Extension(p[Len(p)]) \in AllowList
    /\ NoSegmentStartsWith(p, S_dot)
    /\ NoSegmentStartsWith(p, S_RECYCLE)

EligibleCaseInsensitive(p) ==
    /\ lower(Extension(p[Len(p)])) \in { lower(x) : x \in AllowList }
    /\ NoSegmentStartsWith(p, S_dot)
    /\ NoSegmentStartsWith(p, S_RECYCLE)

\* C5, as amended: once discovery has run, a path below a drive is in
\* all_videos if and only if its extension is exactly mp4 or MPG (upper and
\* lower case are told apart), no segment of it starts with "." and no
\* segment starts with "$RECYCLE".
Thm_C5_EligibleIffCaseSensitive ==
    pc = "cell60" =>
        /\ Range(all_videos) \subseteq Discoverable
        /\ \A e \in Discoverable : e \in Range(all_videos) <=> EligibleCaseSensitive(e)

\* C5, witness: the drive holds the four files of the scenario and
\* discovery has returned a/video.mp4 alone.
Witness_C5_Scenario ==
    /\ pc = "cell60"
    /\ fs = ScenarioFiles
    /\ all_videos = << DrivePath(1) \o << S_a, S_video_mp4 >> >>

\* C5, as claimed: a path is discovered if and only if its extension,
\* compared without regard to case, is in the allow-list and no segment
\* starts with "." or "$RECYCLE".
CE_C5_EligibleIffCaseInsensitive ==
    pc = "cell60" =>
        \A e \in Discoverable : e \in Range(all_videos) <=> EligibleCaseInsensitive(e)

(***************************************************************************)
(* Properties of the metadata table (SpecInventory)                        *)
(***************************************************************************)
AfterCell64 == pc \in { "cell65", "cell74", "planned" }

RECURSIVE RawDurations(_)
RawDurations(raw) ==
    IF raw = << >> THEN 0
    ELSE (IF Head(raw).frames >= 0
          THEN Head(raw).frames \div Head(raw).fps
          ELSE -((-Head(raw).frames) \div Head(raw).fps))
         + RawDurations(Tail(raw))

RECURSIVE KnownDurations(_)
KnownDurations(raw) ==
    IF raw = << >> THEN 0
    ELSE (IF Head(raw).frames >= 0 /\ Head(raw).fps > 0
          THEN Head(raw).frames \div Head(raw).fps ELSE 0)
         + KnownDurations(Tail(raw))

\* C4, as claimed: total_seconds is the sum of frames/fps over exactly the
\* rows whose raw frame count is not negative and whose raw fps is positive;
\* every other row contributes nothing.
CE_C4_TotalOverKnownOnly ==
    pc \in { "cell74", "planned" } => total_seconds = Fin(KnownDurations(cap))

(***************************************************************************)
(* Properties of the script, its run and the verification (SpecRun)        *)
(***************************************************************************)
SameRelativePathOnTwoDrives(v, w) ==
    /\ v[Len(MOUNT_POINT) + 1] # w[Len(MOUNT_POINT) + 1]
    /\ SubSeq(v, Len(MOUNT_POINT) + 2, Len(v)) = SubSeq(w, Len(MOUNT_POINT) + 2, Len(w))

\* C2, as amended: the plan never fails and never holds two jobs with the
\* same output path: there is one job per discovered video, and because the
\* output path keeps the drive name, distinct inputs (the same relative path
\* under two drives too) get distinct output paths.
Thm_C2_OutputsDistinct ==
    pc = "planned" =>
        /\ Len(jobs) = Len(all_videos)
        /\ Len(lines) = Len(all_videos)
        /\ \A i \in 1..Len(jobs) : jobs[i].input = all_videos[i]
        /\ \A i, j \in 1..Len(jobs) : i # j => jobs[i].output # jobs[j].output

\* C2, witness: the same relative path under two drives, both planned, with
\* different output paths.
Witness_C2_SameRelativeTwoDrives ==
    /\ pc = "planned"
    /\ \E i, j \in 1..Len(jobs) :
          /\ SameRelativePathOnTwoDrives(jobs[i].input, jobs[j].input)
          /\ jobs[i].output # jobs[j].output

\* C2, as claimed: when two input roots hold the same relative path,
\* planning fails: no job is planned and none is executed.
CE_C2_CollisionFailsPlan ==
    (/\ pc = "planned"
     /\ \E i, j \in 1..Len(all_videos) :
           SameRelativePathOnTwoDrives(all_videos[i], all_videos[j]))
    => (jobs = << >> /\ lines = << >>)

Terminal == { "Succeeded", "Failed" }

\* C1, as claimed: when the run of the script has ended, every job has
\* reached a terminal status.
CE_C1_AllJobsTerminalAtExit ==
    sh.pc = "exit" => \A k \in 1..Len(status) : status[k] \in Terminal

\* C9, as claimed: every directory the run creates and every file the tool
\* writes lies under the output root, and none lies under an input drive.
CE_C9_WritesOnlyUnderOutputRoot ==
    /\ \A d \in dirs : IsUnder(d, OUTPUT_DRIVE)
    /\ \A f \in outfiles : IsUnder(f.path, OUTPUT_DRIVE)
    /\ \A d \in dirs \cup { f.path : f \in outfiles } :
          \A k \in 1..Len(DRIVES) : ~ IsUnder(d, DrivePath(k))

HasRecord(k) ==
    \E i \in 1..Len(records) : records[i].transcoded_file = jobs[k].output

\* C8, as amended: the verification table has a record for a job exactly
\* when the job's output file exists on the output drive at the time the
\* cell runs, whatever the job's status then: a running or failed job whose
\* file exists is probed and compared, a job with no file gets no record.
Thm_C8_RecordIffOutputExists ==
    verified =>
        /\ \A k \in 1..Len(jobs) :
              HasRecord(k) <=> jobs[k].output \in wrote_at_verify.files
        /\ \A i \in 1..Len(records) :
              \E k \in 1..Len(jobs) : jobs[k].output = records[i].transcoded_file

\* C8, witness: a record for a job that was still running when verified.
Witness_C8_RunningJobVerified ==
    /\ verified
    /\ \E k \in 1..Len(jobs) : HasRecord(k) /\ wrote_at_verify.status[k] = "Running"

\* C8, as claimed: a verification record is produced only for jobs whose
\* status is Succeeded.
CE_C8_OnlySucceededVerified ==
    verified =>
        \A k \in 1..Len(jobs) : HasRecord(k) => wrote_at_verify.status[k] = "Succeeded"

\* C10: the output path of every job is the output root followed by the
\* input's parts below the mount point, the reverse mapping of that output
\* gives the input back, and every record of the verification table pairs an
\* output file with the file ffmpeg produced it from.
Thm_C10_MappingRoundTrip ==
    /\ \A k \in 1..Len(jobs) :
          LET in == jobs[k].input
              out == jobs[k].output
          IN  /\ Len(out) = Len(in) + 1
              /\ SubSeq(out, 1, Len(OUTPUT_DRIVE)) = OUTPUT_DRIVE
              /\ \A n \in (Len(MOUNT_POINT) + 1)..Len(in) : out[n + 1] = in[n]
              /\ original_video(out) = in
    /\ \A i \in 1..Len(records) :
          \E f \in outfiles :
              /\ f.path = records[i].transcoded_file
              /\ f.src = records[i].file

\* C10, witness: a verified output whose record names the input of the job
\* that wrote it.
Witness_C10_RecordNamesOwnInput ==
    /\ verified
    /\ \E i \in 1..Len(records), k \in 1..Len(jobs) :
          /\ records[i].transcoded_file = jobs[k].output
          /\ records[i].file = jobs[k].input
          /\ status[k] = "Succeeded"

====
